---- MODULE Spec2Model ----
(***************************************************************************)
(* Model of the interval index of intervaltree.go: the centered interval   *)
(* tree built by fromIntervals, the point index built by buildBST, and the *)
(* two queries Containing and Intersecting.                                *)
(*                                                                         *)
(* An Interval is identified by its position in the list handed to         *)
(* NewIntervalTree (the code identifies it by pointer); intervals[i] holds *)
(* its Start and End.  The binary tree of package binarytree is a function *)
(* from node positions to elt records: the root is position 1, the left    *)
(* child of position p is 2p and its right child 2p+1; a position outside  *)
(* the domain is a bottom.  The bst of package bst is the strictly         *)
(* increasing sequence of Points it was built from.                        *)
(*                                                                         *)
(* Two slices whose order the code leaves open are kept as bags, which     *)
(* keep how often an interval is listed and drop the order: Point.ptrs     *)
(* (its order depends on sort.Slice, which is not stable) and the result   *)
(* of Intersecting (its order is that of a map iteration).  The result of  *)
(* Containing is a sequence, in the order the code appends.                *)
(***************************************************************************)
EXTENDS Integers, Sequences, FiniteSets, Bags, TLC

VARIABLES intervals, pc, stack, loc, tree, pts, res, bst, last, memo

vars == <<intervals, pc, stack, loc, tree, pts, res, bst, last, memo>>

\* Bounds of the model.
MaxN == 3
MaxVal == 2
MaxObservedN == 2
MaxDepth == 6

Values == 0..MaxVal

\* Interval values with Start <= End (the constraint stated on the type).
IntervalValues == {iv \in [Start : Values, End : Values] : iv.Start <= iv.End}

Inputs == UNION {[1..n -> IntervalValues] : n \in 0..MaxN}

QueryPoints == (0 - 1)..(MaxVal + 1)

QueryRanges == {r \in Values \X Values : r[1] <= r[2]}

\* ---------------------------------------------------------------------
\* Generic helpers
\* ---------------------------------------------------------------------

SeqToSet(s) == {s[i] : i \in DOMAIN s}

Count(s, v) == Cardinality({i \in DOMAIN s : s[i] = v})

\* The place of s[i] in s sorted in ascending order, equal values in the order
\* they have in s.
RankInt(s, i) ==
    Cardinality({j \in DOMAIN s : s[j] < s[i]})
      + Cardinality({j \in 1..i : s[j] = s[i]})

\* sort.Ints
sortInts(s) == [k \in DOMAIN s |-> s[CHOOSE i \in DOMAIN s : RankInt(s, i) = k]]

\* ---------------------------------------------------------------------
\* Interval
\* ---------------------------------------------------------------------

lessStart(a, b) ==
    IF intervals[a].Start = intervals[b].Start
    THEN intervals[a].End < intervals[b].End
    ELSE intervals[a].Start < intervals[b].Start

lessEnd(a, b) ==
    IF intervals[a].End = intervals[b].End
    THEN intervals[a].Start > intervals[b].Start
    ELSE intervals[a].End > intervals[b].End

less(byStart, a, b) == IF byStart THEN lessStart(a, b) ELSE lessEnd(a, b)

\* The place of s[i] in s sorted by less: after every element less than it and
\* after the earlier elements that compare equal to it.
RankStable(byStart, s, i) ==
    Cardinality({j \in DOMAIN s : less(byStart, s[j], s[i])})
      + Cardinality({j \in 1..i : ~less(byStart, s[j], s[i]) /\ ~less(byStart, s[i], s[j])})

\* sort.SliceStable: elements that compare equal keep their order.
SliceStable(byStart, s) ==
    [k \in DOMAIN s |-> s[CHOOSE i \in DOMAIN s : RankStable(byStart, s, i) = k]]

\* ---------------------------------------------------------------------
\* Interval tree node
\* ---------------------------------------------------------------------

\* A variant of newElt whose end-sorted copy misses the first interval.
newEltShortRight(ints, xMid) ==
    [leftSorted  |-> SliceStable(TRUE, ints),
     rightSorted |-> SliceStable(FALSE, IF ints = <<>> THEN <<>> ELSE Tail(ints)),
     xMid        |-> xMid]

newElt(ints, xMid) ==
    [leftSorted  |-> SliceStable(TRUE, ints),
     rightSorted |-> SliceStable(FALSE, ints),
     xMid        |-> xMid]

\* A variant of scan that also stops at an interval whose boundary is x.
RECURSIVE scanOffByOne(_, _, _)
scanOffByOne(fromEnd, s, x) ==
    IF s = <<>> THEN <<>>
    ELSE IF (IF fromEnd THEN intervals[Head(s)].End <= x ELSE intervals[Head(s)].Start >= x)
         THEN <<>>
         ELSE <<Head(s)>> \o scanOffByOne(fromEnd, Tail(s), x)

\* The loop "for in := range s { if stop(in) { break }; res = append(res, in) }"
\* of elt.intersecting, over rightSorted (fromEnd) or leftSorted.
RECURSIVE scan(_, _, _)
scan(fromEnd, s, x) ==
    IF s = <<>> THEN <<>>
    ELSE IF (IF fromEnd THEN intervals[Head(s)].End < x ELSE intervals[Head(s)].Start > x)
         THEN <<>>
         ELSE <<Head(s)>> \o scan(fromEnd, Tail(s), x)

\* elt.intersecting; fatal stands for log.Fatalln("MUST HAVE SAME LENGTH").
eltIntersecting(e, x) ==
    IF Len(e.rightSorted) # Len(e.leftSorted) THEN [fatal |-> TRUE, res |-> <<>>]
    ELSE IF x > e.xMid THEN [fatal |-> FALSE, res |-> scan(TRUE, e.rightSorted, x)]
    ELSE IF x < e.xMid THEN [fatal |-> FALSE, res |-> scan(FALSE, e.leftSorted, x)]
    ELSE [fatal |-> FALSE, res |-> e.leftSorted]

\* ---------------------------------------------------------------------
\* Binary tree positions
\* ---------------------------------------------------------------------

Root == 1
Left(p) == 2 * p
Right(p) == 2 * p + 1
IsBottom(t, p) == p \notin DOMAIN t
EmptyTree == <<>>

\* ---------------------------------------------------------------------
\* fromIntervals
\* ---------------------------------------------------------------------

allPoints(ints) ==
    [i \in 1..(2 * Len(ints)) |->
        IF i <= Len(ints) THEN intervals[ints[i]].Start
        ELSE intervals[ints[i - Len(ints)]].End]

\* A variant of xMidOf that leaves out sort.Ints.
xMidOfUnsorted(ints) == allPoints(ints)[Len(ints) + 1]

\* xMid := allPoints[length], 0-indexed, after sort.Ints
xMidOf(ints) == sortInts(allPoints(ints))[Len(ints) + 1]

\* A variant of side that sends an interval ending at xMid to the left.
sideEndInclusive(in, xMid) ==
    IF intervals[in].End <= xMid THEN "left"
    ELSE IF intervals[in].Start > xMid THEN "right"
    ELSE "mid"

\* A variant of side that sends an interval starting at xMid to the right.
sideStartInclusive(in, xMid) ==
    IF intervals[in].End < xMid THEN "left"
    ELSE IF intervals[in].Start >= xMid THEN "right"
    ELSE "mid"

\* The if / else if / else of the partition loop, for one interval.
side(in, xMid) ==
    IF intervals[in].End < xMid THEN "left"
    ELSE IF intervals[in].Start > xMid THEN "right"
    ELSE "mid"

\* A variant of partition with "if" for "else if": an interval of the left
\* group that starts at or before xMid is appended to mid as well.
partitionNoElse(ints, xMid) ==
    [left  |-> SelectSeq(ints, LAMBDA in : intervals[in].End < xMid),
     right |-> SelectSeq(ints, LAMBDA in : intervals[in].Start > xMid),
     mid   |-> SelectSeq(ints, LAMBDA in : ~(intervals[in].Start > xMid))]

\* The partition loop: each group keeps the order of the input.
partition(ints, xMid) ==
    [left  |-> SelectSeq(ints, LAMBDA in : side(in, xMid) = "left"),
     right |-> SelectSeq(ints, LAMBDA in : side(in, xMid) = "right"),
     mid   |-> SelectSeq(ints, LAMBDA in : side(in, xMid) = "mid")]

NoLocals == [at |-> 0, ints |-> <<>>, xMid |-> 0, left |-> <<>>, right |-> <<>>, mid |-> <<>>]

NoCall == [op |-> "none", arg |-> <<>>, res |-> <<>>]

Init ==
    /\ intervals \in Inputs
    /\ pc = "start"
    /\ stack = <<>>
    /\ loc = NoLocals
    /\ tree = EmptyTree
    /\ pts = <<>>
    /\ res = <<>>
    /\ bst = <<>>
    /\ last = NoCall
    /\ memo = NoCall

\* NewIntervalTree: the composite literal first evaluates fromIntervals(intervals[:]).
NewIntervalTree ==
    /\ pc = "start"
    /\ stack' = <<[at |-> Root, ints |-> [i \in 1..Len(intervals) |-> i]]>>
    /\ pc' = "fromIntervals"
    /\ UNCHANGED <<intervals, loc, tree, pts, res, bst, last, memo>>

\* One call of fromIntervals up to the end of the partition loop (lines 29-57).
\* A call on the empty list returns the empty tree: the position stays a bottom.
\* A recursion deeper than MaxDepth exhausts the stack.
fromIntervalsPartition ==
    /\ pc = "fromIntervals"
    /\ stack # <<>>
    /\ LET f == Head(stack) IN
         IF Len(f.ints) = 0
         THEN /\ stack' = Tail(stack)
              /\ UNCHANGED <<pc, loc>>
         ELSE IF f.at >= 2 ^ MaxDepth
         THEN /\ pc' = "overflow"
              /\ UNCHANGED <<stack, loc>>
         ELSE LET xMid == xMidOf(f.ints)
                  parts == partition(f.ints, xMid) IN
              /\ loc' = [at |-> f.at, ints |-> f.ints, xMid |-> xMid,
                         left |-> parts.left, right |-> parts.right, mid |-> parts.mid]
              /\ stack' = Tail(stack)
              /\ pc' = "check"
    /\ UNCHANGED <<intervals, tree, pts, res, bst, last, memo>>

\* The rest of the call (lines 59-72): the partition check, the node, and the
\* two recursive calls, left first.
fromIntervalsInsert ==
    /\ pc = "check"
    /\ IF Len(loc.mid) + Len(loc.right) + Len(loc.left) # Len(loc.ints)
       THEN /\ pc' = "fatalPartition"
            /\ UNCHANGED <<stack, tree, loc>>
       ELSE /\ tree' = tree @@ (loc.at :> newElt(loc.mid, loc.xMid))
            /\ stack' = <<[at |-> Left(loc.at), ints |-> loc.left],
                          [at |-> Right(loc.at), ints |-> loc.right]>> \o stack
            /\ loc' = NoLocals
            /\ pc' = "fromIntervals"
    /\ UNCHANGED <<intervals, pts, res, bst, last, memo>>

\* ---------------------------------------------------------------------
\* Point index
\* ---------------------------------------------------------------------

\* Point{x, []*Interval{in}}
NewPoint(x, in) == [x |-> x, ptrs |-> SetToBag({in})]

\* Point.CompareTo
CompareTo(p, q) == IF p.x < q.x THEN 0 - 1 ELSE IF p.x > q.x THEN 1 ELSE 0

\* Point.fusion: p.ptrs = append(p.ptrs, p2.ptrs...)
fusion(p, p2) == [p EXCEPT !.ptrs = p.ptrs (+) p2.ptrs]

\* The place of s[i] in s sorted by CompareTo.  sort.Slice leaves the order of
\* Points of equal value open; they are fused next, into a bag.
RankPoint(s, i) ==
    Cardinality({j \in DOMAIN s : CompareTo(s[j], s[i]) < 0})
      + Cardinality({j \in 1..i : CompareTo(s[j], s[i]) = 0})

\* sort.Slice with less(i, j) = allPoints[i].CompareTo(allPoints[j]) < 0
sortPoints(s) == [k \in DOMAIN s |-> s[CHOOSE i \in DOMAIN s : RankPoint(s, i) = k]]

\* A variant of fuseStep that drops a duplicate Point without the fusion.
fuseStepDrop(r, p) ==
    IF r # <<>> /\ CompareTo(r[Len(r)], p) = 0
    THEN r
    ELSE Append(r, p)

\* One iteration of the loop of removeDuplicateByFusion.
fuseStep(r, p) ==
    IF r # <<>> /\ CompareTo(r[Len(r)], p) = 0
    THEN [r EXCEPT ![Len(r)] = fusion(r[Len(r)], p)]
    ELSE Append(r, p)

\* The array buildBST fills: a Point for every Start, then one for every End.
bstPoints(ints) ==
    [i \in 1..(2 * Len(ints)) |->
        IF i <= Len(ints) THEN NewPoint(intervals[ints[i]].Start, ints[i])
        ELSE NewPoint(intervals[ints[i - Len(ints)]].End, ints[i - Len(ints)])]

\* bst.IntervalSearch(lo, hi): the Points whose value lies in [lo, hi].
IntervalSearch(b, lo, hi) == SelectSeq(b, LAMBDA p : lo <= p.x /\ p.x <= hi)

\* NewIntervalTree, second field of the composite literal, once the outermost
\* fromIntervals has returned: buildBST(intervals[:]) up to the call of
\* removeDuplicateByFusion (lines 257-273).  On the empty list it returns
\* bst.NewBST().
buildBSTSort ==
    /\ pc = "fromIntervals"
    /\ stack = <<>>
    /\ IF Len(intervals) = 0
       THEN /\ pc' = "built"
            /\ UNCHANGED pts
       ELSE /\ pts' = sortPoints(bstPoints([i \in 1..Len(intervals) |-> i]))
            /\ pc' = "fusion"
    /\ UNCHANGED <<intervals, stack, loc, tree, res, bst, last, memo>>

\* One iteration of the loop of removeDuplicateByFusion.
removeDuplicateByFusionStep ==
    /\ pc = "fusion"
    /\ pts # <<>>
    /\ res' = fuseStep(res, Head(pts))
    /\ pts' = Tail(pts)
    /\ UNCHANGED <<intervals, pc, stack, loc, tree, bst, last, memo>>

\* removeDuplicateByFusion returns and buildBST hands the Points to bst.NewBSTReady.
buildBSTReturn ==
    /\ pc = "fusion"
    /\ pts = <<>>
    /\ bst' = res
    /\ res' = <<>>
    /\ pc' = "built"
    /\ UNCHANGED <<intervals, stack, loc, tree, pts, last, memo>>

\* ---------------------------------------------------------------------
\* Queries
\* ---------------------------------------------------------------------

\* intersecting(itr, x), with itr at position p of tree t.
RECURSIVE intersecting(_, _, _)
intersecting(t, p, x) ==
    IF IsBottom(t, p) THEN [fatal |-> FALSE, res |-> <<>>]
    ELSE LET e == t[p]
             here == eltIntersecting(e, x)
             below == IF x > e.xMid THEN intersecting(t, Right(p), x)
                      ELSE IF x < e.xMid THEN intersecting(t, Left(p), x)
                      ELSE [fatal |-> FALSE, res |-> <<>>]
         IN [fatal |-> here.fatal \/ below.fatal, res |-> here.res \o below.res]

\* A variant of Containing that consumes the head of the root's start-sorted list.
ContainingDestructive(x) ==
    /\ pc = "built"
    /\ last' = [op |-> "Containing", arg |-> <<x>>, res |-> intersecting(tree, Root, x).res]
    /\ tree' = IF IsBottom(tree, Root) \/ tree[Root].leftSorted = <<>> THEN tree
               ELSE [tree EXCEPT ![Root].leftSorted = Tail(@)]
    /\ UNCHANGED <<intervals, pc, stack, loc, pts, res, bst, memo>>

\* IntervalTree.Containing
Containing(x) ==
    /\ pc = "built"
    /\ LET r == intersecting(tree, Root, x) IN
         IF r.fatal
         THEN /\ pc' = "fatalLength"
              /\ UNCHANGED last
         ELSE /\ last' = [op |-> "Containing", arg |-> <<x>>, res |-> r.res]
              /\ UNCHANGED pc
    /\ UNCHANGED <<intervals, stack, loc, tree, pts, res, bst, memo>>

\* A variant of IntersectingSet without the point query at the start of the range.
IntersectingSetNoContaining(t, b, lo, hi) ==
    LET intervalSearchResult == IntervalSearch(b, lo, hi)
    IN UNION {BagToSet(intervalSearchResult[k].ptrs) : k \in DOMAIN intervalSearchResult}

\* The keys of the map "set" of IntervalTree.Intersecting (lines 103-116).
IntersectingSet(t, b, lo, hi) ==
    LET intervalSearchResult == IntervalSearch(b, lo, hi)
        intersectSearchResult == intersecting(t, Root, lo).res
    IN UNION {BagToSet(intervalSearchResult[k].ptrs) : k \in DOMAIN intervalSearchResult}
         \cup SeqToSet(intersectSearchResult)

\* A variant of Intersecting whose map outlives the call: the keys of the
\* previous range query are still in it.
IntersectingStaleMap(lo, hi) ==
    /\ pc = "built"
    /\ last' = [op |-> "Intersecting", arg |-> <<lo, hi>>,
                res |-> SetToBag(IntersectingSet(tree, bst, lo, hi)
                          \cup (IF last.op = "Intersecting" THEN BagToSet(last.res) ELSE {}))]
    /\ UNCHANGED <<intervals, pc, stack, loc, tree, pts, res, bst, memo>>

\* IntervalTree.Intersecting: the result lists the keys of the map, each once,
\* in the order the map iteration yields them (a bag, see the head of the module).
Intersecting(lo, hi) ==
    /\ pc = "built"
    /\ IF intersecting(tree, Root, lo).fatal
       THEN /\ pc' = "fatalLength"
            /\ UNCHANGED last
       ELSE /\ last' = [op |-> "Intersecting", arg |-> <<lo, hi>>,
                         res |-> SetToBag(IntersectingSet(tree, bst, lo, hi))]
            /\ UNCHANGED pc
    /\ UNCHANGED <<intervals, stack, loc, tree, pts, res, bst, memo>>

\* An observer takes the last call and its result away for a later comparison;
\* what is in last afterwards comes from a later call.
Remember ==
    /\ pc = "built"
    /\ last # NoCall
    /\ memo' = last
    /\ last' = NoCall
    /\ UNCHANGED <<intervals, pc, stack, loc, tree, pts, res, bst>>

Build ==
    \/ NewIntervalTree
    \/ fromIntervalsPartition
    \/ fromIntervalsInsert
    \/ buildBSTSort
    \/ removeDuplicateByFusionStep
    \/ buildBSTReturn

Next ==
    \/ NewIntervalTree
    \/ fromIntervalsPartition
    \/ fromIntervalsInsert
    \/ buildBSTSort
    \/ removeDuplicateByFusionStep
    \/ buildBSTReturn
    \/ \E x \in QueryPoints : Containing(x)
    \/ \E r \in QueryRanges : Intersecting(r[1], r[2])

Spec == Init /\ [][Next]_vars

\* Queries with the observer, on inputs of at most MaxObservedN intervals.
NextObserved == Next \/ Remember

InitObserved == Init /\ Len(intervals) <= MaxObservedN

SpecObserved == InitObserved /\ [][NextObserved]_vars

\* Construction alone, every step of it eventually taken.
SpecBuild == Init /\ [][Build]_vars /\ WF_vars(Build)

\* ---------------------------------------------------------------------
\* Properties
\* ---------------------------------------------------------------------

Ids == 1..Len(intervals)

Contains(i, x) == intervals[i].Start <= x /\ x <= intervals[i].End

Overlaps(i, lo, hi) == intervals[i].Start <= hi /\ intervals[i].End >= lo

\* The intervals stored at node p.
Stored(p) == SeqToSet(tree[p].leftSorted)

\* The node positions that hold interval i.
NodesOf(i) == {p \in DOMAIN tree : i \in Stored(p)}

\* C1: Containing(x) returns every input interval with Start <= x <= End
\* exactly once and no other interval, the empty input included.
C1_ContainingExact ==
    last.op = "Containing" =>
        /\ SeqToSet(last.res) \subseteq Ids
        /\ \A i \in Ids :
             Count(last.res, i) = IF Contains(i, last.arg[1]) THEN 1 ELSE 0

\* A point query answered from two different nodes that leaves an interval out.
C1_Witness ==
    /\ last.op = "Containing"
    /\ \E i, j \in SeqToSet(last.res) : NodesOf(i) # NodesOf(j)
    /\ \E k \in Ids : ~Contains(k, last.arg[1])

\* C2: Intersecting({lo, hi}) returns every input interval with Start <= hi and
\* End >= lo exactly once and no other interval, whatever the kind of overlap.
C2_IntersectingExact ==
    last.op = "Intersecting" =>
        /\ BagToSet(last.res) \subseteq Ids
        /\ \A i \in Ids :
             CopiesIn(i, last.res) =
                 IF Overlaps(i, last.arg[1], last.arg[2]) THEN 1 ELSE 0

\* A range query that returns an interval strictly enclosing the range and an
\* interval with a boundary inside it, and leaves an interval out.
C2_Witness ==
    /\ last.op = "Intersecting"
    /\ \E i \in BagToSet(last.res) :
         intervals[i].Start < last.arg[1] /\ intervals[i].End > last.arg[2]
    /\ \E j \in BagToSet(last.res) :
         last.arg[1] <= intervals[j].Start /\ intervals[j].Start <= last.arg[2]
    /\ \E k \in Ids : ~Overlaps(k, last.arg[1], last.arg[2])

\* C3: once NewIntervalTree has returned, no step changes the tree, the point
\* index or the intervals.
C3_QueriesReadOnly ==
    [][pc = "built" => tree' = tree /\ bst' = bst /\ intervals' = intervals]_vars

\* A range query has returned intervals on an index with several nodes and
\* several Points.
C3_Witness ==
    /\ pc = "built"
    /\ last.op = "Intersecting"
    /\ BagCardinality(last.res) >= 1
    /\ Cardinality(DOMAIN tree) >= 2
    /\ Len(bst) >= 2

\* The set of intervals a call returned.
ResultSet(call) ==
    IF call.op = "Intersecting" THEN BagToSet(call.res) ELSE SeqToSet(call.res)

\* C4: a call with the operation and the argument of a remembered earlier call
\* returns the same set of intervals, whatever was called in between.
C4_SameArgumentsSameSet ==
    (memo.op # "none" /\ last.op = memo.op /\ last.arg = memo.arg) =>
        ResultSet(last) = ResultSet(memo)

\* A range query made again after the observer took the first one away: both
\* return some of the intervals and not all of them.
C4_Witness ==
    /\ memo.op = "Intersecting"
    /\ last.op = "Intersecting"
    /\ last.arg = memo.arg
    /\ Cardinality(ResultSet(last)) >= 1
    /\ Cardinality(ResultSet(last)) < Len(intervals)

\* C5: at the partition check the three groups are pairwise disjoint and their
\* sizes sum to the size of the input of the call, the fatal branch is never
\* taken, and in the finished tree every input interval is in the mid list of
\* exactly one node, once.
C5_PartitionComplete ==
    /\ pc # "fatalPartition"
    /\ pc = "check" =>
         /\ SeqToSet(loc.left) \cap SeqToSet(loc.right) = {}
         /\ SeqToSet(loc.left) \cap SeqToSet(loc.mid) = {}
         /\ SeqToSet(loc.right) \cap SeqToSet(loc.mid) = {}
         /\ Len(loc.left) + Len(loc.mid) + Len(loc.right) = Len(loc.ints)
    /\ pc = "built" =>
         \A i \in Ids :
             /\ Cardinality(NodesOf(i)) = 1
             /\ \A p \in NodesOf(i) : Count(tree[p].leftSorted, i) = 1

\* A call whose three groups are all non-empty is at its partition check.
C5_Witness ==
    /\ pc = "check"
    /\ loc.left # <<>>
    /\ loc.mid # <<>>
    /\ loc.right # <<>>

\* Position q is p or lies below p.
RECURSIVE IsUnder(_, _)
IsUnder(q, p) == q = p \/ (q > p /\ IsUnder(q \div 2, p))

\* The intervals stored at p or below it: in the finished tree, the intervals
\* given to the call that built node p.
GivenTo(p) == UNION {Stored(q) : q \in {r \in DOMAIN tree : IsUnder(r, p)}}

Spans(i, xMid) == intervals[i].Start <= xMid /\ xMid <= intervals[i].End

\* C6: at every node leftSorted and rightSorted have the same length and list
\* the same intervals equally often; the mid group of a call, and the lists of
\* a node of the finished tree, hold exactly the intervals given to it with
\* Start <= xMid <= End; the length check of elt.intersecting never fails.
C6_NodeListsAgree ==
    /\ pc # "fatalLength"
    /\ \A p \in DOMAIN tree :
         /\ Len(tree[p].leftSorted) = Len(tree[p].rightSorted)
         /\ \A i \in Ids : Count(tree[p].leftSorted, i) = Count(tree[p].rightSorted, i)
    /\ pc = "check" =>
         SeqToSet(loc.mid) = {i \in SeqToSet(loc.ints) : Spans(i, loc.xMid)}
    /\ pc = "built" =>
         \A p \in DOMAIN tree :
             Stored(p) = {i \in GivenTo(p) : Spans(i, tree[p].xMid)}

\* A point query has run on a tree whose root holds two intervals in different
\* orders in its two lists and has a child.
C6_Witness ==
    /\ pc = "built"
    /\ last.op = "Containing"
    /\ Cardinality(DOMAIN tree) >= 2
    /\ Len(tree[Root].leftSorted) >= 2
    /\ tree[Root].leftSorted # tree[Root].rightSorted

\* The nodes a point query for x visits from p: right when x > xMid, left when
\* x < xMid, neither when x = xMid.
RECURSIVE Visited(_, _)
Visited(p, x) ==
    IF p \notin DOMAIN tree THEN {}
    ELSE {p} \cup (IF x > tree[p].xMid THEN Visited(Right(p), x)
                   ELSE IF x < tree[p].xMid THEN Visited(Left(p), x)
                   ELSE {})

\* C7: every interval stored below the left child of a node ends before the
\* node's xMid, every interval stored below its right child starts after it,
\* and in the finished tree every interval that contains x is stored at a node
\* the point query for x visits.
C7_SubtreesOrdered ==
    /\ \A p, q \in DOMAIN tree :
         /\ IsUnder(q, Left(p)) => \A i \in Stored(q) : intervals[i].End < tree[p].xMid
         /\ IsUnder(q, Right(p)) => \A i \in Stored(q) : intervals[i].Start > tree[p].xMid
    /\ pc = "built" =>
         \A x \in QueryPoints : \A i \in Ids :
             Contains(i, x) => NodesOf(i) \subseteq Visited(Root, x)

\* A point query for the root's xMid has run on a tree whose root has both children.
C7_Witness ==
    /\ pc = "built"
    /\ Left(Root) \in DOMAIN tree
    /\ Right(Root) \in DOMAIN tree
    /\ last.op = "Containing"
    /\ last.arg[1] = tree[Root].xMid

\* The values that are the Start or the End of an input interval.
BoundaryValues == {intervals[i].Start : i \in Ids} \cup {intervals[i].End : i \in Ids}

\* The input intervals that have v as a boundary.
OwnersOf(v) == {i \in Ids : intervals[i].Start = v \/ intervals[i].End = v}

\* The positions in the point index of the Points with value v.
PointsAt(v) == {k \in DOMAIN bst : bst[k].x = v}

\* How many of the two boundaries of interval i equal v.
BoundariesAt(i, v) ==
    (IF intervals[i].Start = v THEN 1 ELSE 0) + (IF intervals[i].End = v THEN 1 ELSE 0)

\* One Point for every boundary value and no other, in strictly increasing order.
PointsUnique ==
    /\ \A k \in DOMAIN bst : bst[k].x \in BoundaryValues
    /\ \A v \in BoundaryValues : Cardinality(PointsAt(v)) = 1
    /\ \A k \in 1..(Len(bst) - 1) : bst[k].x < bst[k + 1].x

\* C8 as stated: one Point for every boundary value v, the Points strictly
\* increasing, and the owners of the Point at v are the N intervals that have v
\* as a boundary, N entries, none listed twice.
C8_OwnersListedOnce ==
    pc = "built" =>
        /\ PointsUnique
        /\ \A v \in BoundaryValues : \A k \in PointsAt(v) :
             /\ BagToSet(bst[k].ptrs) = OwnersOf(v)
             /\ BagCardinality(bst[k].ptrs) = Cardinality(OwnersOf(v))
             /\ \A i \in OwnersOf(v) : CopiesIn(i, bst[k].ptrs) = 1

\* C8 as amended: one Point for every boundary value v, the Points strictly
\* increasing, and the Point at v lists an interval once for each of its
\* boundaries that equals v: once when Start < End, twice when Start = End = v.
C8_OwnersListedPerBoundary ==
    pc = "built" =>
        /\ PointsUnique
        /\ \A v \in BoundaryValues : \A k \in PointsAt(v) :
             /\ BagToSet(bst[k].ptrs) = OwnersOf(v)
             /\ \A i \in Ids : CopiesIn(i, bst[k].ptrs) = BoundariesAt(i, v)

\* A Point fused from an interval with Start = End and from the boundary of
\* another interval, next to a second Point.
C8_Witness ==
    /\ pc = "built"
    /\ Len(bst) >= 2
    /\ \E k \in DOMAIN bst : \E i, j \in Ids :
         /\ CopiesIn(i, bst[k].ptrs) = 2
         /\ CopiesIn(j, bst[k].ptrs) = 1

RECURSIVE FloorLog2(_)
FloorLog2(n) == IF n <= 1 THEN 0 ELSE 1 + FloorLog2(n \div 2)

\* The number of levels of the tree: position p is on level FloorLog2(p) + 1.
Height == IF DOMAIN tree = {} THEN 0
          ELSE CHOOSE h \in {FloorLog2(p) + 1 : p \in DOMAIN tree} :
                   \A p \in DOMAIN tree : FloorLog2(p) + 1 <= h

\* C9: at the partition check of a call on n intervals the left and the right
\* group hold at most floor(n/2) intervals each, and the finished tree over
\* n >= 1 intervals has at most floor(log2(n)) + 1 levels (none for n = 0).
C9_BalancedSplit ==
    /\ pc = "check" =>
         /\ Len(loc.left) <= Len(loc.ints) \div 2
         /\ Len(loc.right) <= Len(loc.ints) \div 2
    /\ pc = "built" =>
         Height <= IF Len(intervals) = 0 THEN 0 ELSE FloorLog2(Len(intervals)) + 1

\* A finished tree over at least three intervals that has as many levels as allowed.
C9_Witness ==
    /\ pc = "built"
    /\ Len(intervals) >= 3
    /\ Height = FloorLog2(Len(intervals)) + 1

\* C10: every call on a non-empty list has a non-empty mid group, so both
\* recursive calls get fewer intervals and no node has an empty mid list; the
\* recursion never exhausts the stack, and construction ends.
C10_ConstructionTerminates ==
    /\ [](/\ pc # "overflow"
          /\ pc = "check" =>
               /\ Len(loc.mid) >= 1
               /\ Len(loc.left) < Len(loc.ints)
               /\ Len(loc.right) < Len(loc.ints)
          /\ \A p \in DOMAIN tree : Len(tree[p].leftSorted) >= 1)
    /\ <>(pc = "built")

\* Construction has ended with a node on either side of the root.
C10_Witness ==
    /\ pc = "built"
    /\ Left(Root) \in DOMAIN tree
    /\ Right(Root) \in DOMAIN tree

====
